---------------------------- MODULE Spec2Model ----------------------------
(***************************************************************************)
(* Model of the cellcrypt challenge programs:                              *)
(*   - the trie-based NameBook            (src/name_book_tree.cpp)         *)
(*   - the pairwise NameBook              (src/name_book.cpp)              *)
(*   - the incremental list-based NameBook (src/unnamed/part_001)          *)
(*   - the three factorial digit-sum programs                              *)
(*       (src/factorial_hash.cpp, two programs; src/unnamed/part_000)      *)
(*                                                                         *)
(* Characters are ASCII codes, strings are sequences of characters.        *)
(* The specifications share the variables:                                *)
(*   Spec       trie book and pairwise book fed the same names             *)
(*   SpecInc    the incremental book                                       *)
(*   SpecBooks  the three books fed the same names, with ClearNames        *)
(*   SpecRaw    the trie book fed names with characters outside 'a'..'z'   *)
(*   SpecFact   the three factorial programs fed the same input            *)
(*   SpecMul10  one operator* call on a base-10 BigNum, then operator<<    *)
(*   SpecMul64  one operator* or operator*= call on a uint64 BigNum        *)
(***************************************************************************)
EXTENDS Integers, Sequences, FiniteSets, TLC

VARIABLES
  t_,               \* name_book_tree.cpp: WordTree heap; t_[1] is root_
  consistent_,      \* name_book_tree.cpp: NameBook::consistent_
  ret,              \* name_book_tree.cpp: value returned by the last AddWord
  name_list_,       \* name_book.cpp: NameBook::name_list_
  inc_name_list_,   \* part_001: NameBook::name_list_
  inc_consistent_,  \* part_001: NameBook::consistent_
  x,                \* factorial programs: the integer read from std::cin
  pc,               \* factorial programs: where each main() is
  f,                \* factorial programs: <<factorial(x)>> once computed
  digit_sum,        \* factorial programs: <<sum_of_digits(f)>> once computed
  out,              \* factorial programs: the lines written to std::cout
  exit_code,        \* factorial programs: <<value main() returned>>
  m10,              \* a base-10 BigNum, the operator* call made on it and
                    \* what operator<< printed of the result
  m64,              \* a uint64 BigNum and the operator* or operator*= call
                    \* made on it
  indices,          \* the children_ indices used by the last AddWord
  ub                \* an AddWord call indexed children_ out of bounds

nameVars == <<t_, consistent_, ret, name_list_>>
incVars == <<inc_name_list_, inc_consistent_>>
factVars == <<x, pc, f, digit_sum, out, exit_code>>
extVars == <<m10, m64, indices, ub>>
vars ==
  <<t_, consistent_, ret, name_list_, inc_name_list_, inc_consistent_,
    x, pc, f, digit_sum, out, exit_code, m10, m64, indices, ub>>

(***************************************************************************)
(* Bounds                                                                  *)
(***************************************************************************)
NumLetters == 2      \* names use the first NumLetters letters of 'a'..'z'
MaxNameLen == 3      \* longest name
MaxNames == 3        \* longest name list
MaxFileNames == 2    \* most names in one file handed to ReadNames
MaxN == 11           \* largest input whose factorial is computed
MaxOver == 2         \* inputs kUpperBound - MaxOver .. kUpperBound + MaxOver
MaxStrLen == 3       \* longest decimal string a BigNum is constructed from
MaxMul == 3          \* largest of the small multipliers
MaxLimbs == 2        \* most limbs of a uint64 BigNum operand

(***************************************************************************)
(* Names                                                                   *)
(***************************************************************************)
Letters == 97 .. (96 + NumLetters)

\* operator>>(istream&, string&) yields non-empty whitespace-free tokens
Names == UNION {[1..n -> Letters] : n \in 1..MaxNameLen}

Files == UNION {[1..n -> Names] : n \in 0..MaxFileNames}

Min(S) == CHOOSE m \in S : \A n \in S : m <= n

(***************************************************************************)
(* src/name_book_tree.cpp: Node                                            *)
(***************************************************************************)
kMaxChildren == 26

NULL == 0

Node(c) ==
  [data |-> c,
   children |-> [i \in 0..(kMaxChildren - 1) |-> NULL],
   num_children |-> 0]

IndexFromChar(c) == c - 97

GetChild(h, p, c) == h[p].children[IndexFromChar(c)]

\* num_children_ is a uint8_t
AddChild(h, p, q) ==
  [h EXCEPT ![p].children[IndexFromChar(h[q].data)] = q,
            ![p].num_children = (@ + 1) % 256]

num_children(h, p) == h[p].num_children

(***************************************************************************)
(* src/name_book_tree.cpp: WordTree                                        *)
(***************************************************************************)
kOK == "kOK"

KCollision == "KCollision"

root_ == 1

WordTree == <<Node(114)>>

\* returns the heap after the call and the node returned
AddNode(h, c, base_node) ==
  LET node == GetChild(h, base_node, c)
  IN IF node = NULL
       THEN LET h1 == Append(h, Node(c))
                n == Len(h1)
            IN [heap |-> AddChild(h1, base_node, n), node |-> n]
       ELSE [heap |-> h, node |-> node]

Collides(h, node, i, word) == num_children(h, node) > 0 /\ i < Len(word)

RECURSIVE AddWordLoop(_, _, _, _, _)
AddWordLoop(h, word, i, base_node, r) ==
  IF i < Len(word)
    THEN LET a == AddNode(h, word[i + 1], base_node)
             r1 == IF Collides(a.heap, a.node, i, word) THEN KCollision ELSE r
         IN AddWordLoop(a.heap, word, i + 1, a.node, r1)
    ELSE [heap |-> h, ret |-> r]

AddWord(h, word) == AddWordLoop(h, word, 0, root_, kOK)

(***************************************************************************)
(* src/name_book_tree.cpp: NameBook                                        *)
(***************************************************************************)
\* mutant: the flag follows the last AddWord result
TreeAdd_LastResult(book, name) ==
  LET a == AddWord(book.t, name)
  IN [t |-> a.heap,
      consistent |-> a.ret # KCollision,
      ret |-> a.ret]

\* the book after AddName(name): tree, flag and the value AddWord returned
TreeAdd(book, name) ==
  LET a == AddWord(book.t, name)
  IN [t |-> a.heap,
      consistent |-> IF a.ret = KCollision THEN FALSE ELSE book.consistent,
      ret |-> a.ret]

RECURSIVE TreeReadLoop(_, _, _)
TreeReadLoop(book, file, k) ==
  IF k <= Len(file)
    THEN TreeReadLoop(TreeAdd(book, file[k]), file, k + 1)
    ELSE book

TreeBook == [t |-> t_, consistent |-> consistent_, ret |-> ret]

TreeAddName(name) ==
  LET b == TreeAdd(TreeBook, name)
  IN /\ t_' = b.t
     /\ consistent_' = b.consistent
     /\ ret' = b.ret

TreeReadNames(file) ==
  LET b == TreeReadLoop(TreeBook, file, 1)
  IN /\ t_' = b.t
     /\ consistent_' = b.consistent
     /\ ret' = b.ret

consistent == consistent_

(***************************************************************************)
(* std::string::find and the uint32_t it is stored in.  A size_t is four   *)
(* 16-bit words, least significant first; a uint32_t is two.               *)
(***************************************************************************)
SizeT(p) == <<p % 65536, (p \div 65536) % 65536, 0, 0>>

npos == <<65535, 65535, 65535, 65535>>

ToUint32(v) == <<v[1], v[2]>>

Widen(u) == <<u[1], u[2], 0, 0>>

Zero32 == <<0, 0>>

\* position of the first occurrence of t in s, npos if there is none
Find(s, t) ==
  LET cands == {p \in 0..(Len(s) - Len(t)) : SubSeq(s, p + 1, p + Len(t)) = t}
  IN IF cands = {} THEN npos ELSE SizeT(Min(cands))

(***************************************************************************)
(* src/name_book.cpp: NameBook                                             *)
(***************************************************************************)
\* mutant: an occurrence at any position counts
PairClash_AnyPosition(name_1, name_2) ==
  LET pos_1 == ToUint32(Find(name_1, name_2))
      pos_2 == ToUint32(Find(name_2, name_1))
  IN \/ Widen(pos_1) # Widen(ToUint32(npos))
     \/ Widen(pos_2) # Widen(ToUint32(npos))

PairClash(name_1, name_2) ==
  LET pos_1 == ToUint32(Find(name_1, name_2))
      pos_2 == ToUint32(Find(name_2, name_1))
  IN \/ (Widen(pos_1) # npos /\ pos_1 = Zero32)
     \/ (Widen(pos_2) # npos /\ pos_2 = Zero32)

IsConsistent(list) ==
  \A i \in 0..(Len(list) - 1) :
    \A j \in (i + 1)..(Len(list) - 1) :
      ~PairClash(list[i + 1], list[j + 1])

ListAddName(name) == name_list_' = Append(name_list_, name)

ListReadNames(file) == name_list_' = name_list_ \o file

(***************************************************************************)
(* src/unnamed/part_001: NameBook                                          *)
(***************************************************************************)
CheckIfSubString(name_1, name_2) ==
  LET pos_1 == ToUint32(Find(name_1, name_2))
      pos_2 == ToUint32(Find(name_2, name_1))
  IN IF Widen(pos_1) # npos /\ pos_1 = Zero32
       THEN TRUE
       ELSE IF Widen(pos_2) # npos /\ pos_2 = Zero32
              THEN TRUE
              ELSE FALSE

CheckNameConsistency(list, name) ==
  \A k \in 1..Len(list) : ~CheckIfSubString(name, list[k])

IncIsConsistent(list) ==
  \A i \in 0..(Len(list) - 1) :
    \A j \in (i + 1)..(Len(list) - 1) :
      ~CheckIfSubString(list[i + 1], list[j + 1])

\* mutant: the flag follows the last check instead of staying false
IncAdd_LastCheck(book, name) ==
  [list |-> Append(book.list, name),
   consistent |-> CheckNameConsistency(book.list, name)]

IncAdd(book, name) ==
  [list |-> Append(book.list, name),
   consistent |-> IF ~CheckNameConsistency(book.list, name)
                    THEN FALSE
                    ELSE book.consistent]

RECURSIVE IncReadLoop(_, _, _)
IncReadLoop(book, file, k) ==
  IF k <= Len(file)
    THEN IncReadLoop(IncAdd(book, file[k]), file, k + 1)
    ELSE book

IncBook == [list |-> inc_name_list_, consistent |-> inc_consistent_]

IncAddName(name) ==
  /\ Len(inc_name_list_) < MaxNames
  /\ LET b == IncAdd(IncBook, name)
     IN /\ inc_name_list_' = b.list
        /\ inc_consistent_' = b.consistent
  /\ UNCHANGED <<nameVars, factVars, extVars>>

IncReadNames(file) ==
  /\ Len(inc_name_list_) + Len(file) <= MaxNames
  /\ LET b == IncReadLoop(IncBook, file, 1)
     IN /\ inc_name_list_' = b.list
        /\ inc_consistent_' = b.consistent
  /\ UNCHANGED <<nameVars, factVars, extVars>>

ClearNames ==
  /\ inc_name_list_' = <<>>
  /\ inc_consistent_' = TRUE
  /\ UNCHANGED <<nameVars, factVars, extVars>>

inc_consistent == inc_consistent_

(***************************************************************************)
(* Wide naturals: decimal digits, least significant first, no leading      *)
(* zero digit, <<>> is 0.  They carry the values of uint64_t and uint32_t  *)
(* arithmetic, which wraps at 2^64 and 2^32.                               *)
(***************************************************************************)
RECURSIVE WNorm(_)
WNorm(w) ==
  IF w = <<>> THEN w
  ELSE IF w[Len(w)] = 0 THEN WNorm(SubSeq(w, 1, Len(w) - 1)) ELSE w

RECURSIVE WFromNat(_)
WFromNat(n) == IF n = 0 THEN <<>> ELSE <<n % 10>> \o WFromNat(n \div 10)

RECURSIVE WToNat(_)
WToNat(w) == IF w = <<>> THEN 0 ELSE w[1] + 10 * WToNat(Tail(w))

WDigit(w, k) == IF k <= Len(w) THEN w[k] ELSE 0

RECURSIVE WAddLoop(_, _, _, _)
WAddLoop(a, b, k, carry) ==
  IF k > Len(a) /\ k > Len(b)
    THEN WFromNat(carry)
    ELSE LET d == WDigit(a, k) + WDigit(b, k) + carry
         IN <<d % 10>> \o WAddLoop(a, b, k + 1, d \div 10)

WAdd(a, b) == WAddLoop(a, b, 1, 0)

RECURSIVE WMulLoop(_, _, _, _)
WMulLoop(a, m, k, carry) ==
  IF k > Len(a)
    THEN WFromNat(carry)
    ELSE LET d == a[k] * m + carry
         IN <<d % 10>> \o WMulLoop(a, m, k + 1, d \div 10)

\* a times the small natural m
WMulNat(a, m) == WNorm(WMulLoop(a, m, 1, 0))

WLess(a, b) ==
  IF Len(a) # Len(b)
    THEN Len(a) < Len(b)
    ELSE \E k \in 1..Len(a) :
           a[k] < b[k] /\ \A j \in (k + 1)..Len(a) : a[j] = b[j]

RECURSIVE WSubLoop(_, _, _, _)
WSubLoop(a, b, k, borrow) ==
  IF k > Len(a)
    THEN <<>>
    ELSE LET d == a[k] - WDigit(b, k) - borrow
         IN <<IF d < 0 THEN d + 10 ELSE d>>
              \o WSubLoop(a, b, k + 1, IF d < 0 THEN 1 ELSE 0)

\* a - b, for a >= b
WSub(a, b) == WNorm(WSubLoop(a, b, 1, 0))

RECURSIVE WMod(_, _)
WMod(a, m) == IF WLess(a, m) THEN a ELSE WMod(WSub(a, m), m)

\* 2^32 = 4294967296
Two32 == <<6, 9, 2, 7, 6, 9, 4, 9, 2, 4>>

\* 2^64 = 18446744073709551616
Two64 == <<6, 1, 6, 1, 5, 5, 9, 0, 7, 3, 7, 0, 4, 4, 7, 6, 4, 4, 8, 1>>

Wrap64(w) == WMod(w, Two64)

\* mutant: the carry is not added
MulAdd32_NoCarry(d, num, carry) ==
  WToNat(WMod(WMulNat(WFromNat(d), num), Two32))

\* the uint32_t value of d * num + carry
MulAdd32(d, num, carry) ==
  WToNat(WMod(WAdd(WMulNat(WFromNat(d), num), WFromNat(carry)), Two32))

Add32(a, b) == WToNat(WMod(WAdd(WFromNat(a), WFromNat(b)), Two32))

\* the uint64_t value of limb * num + carry
MulAdd64(limb, num, carry) == Wrap64(WAdd(WMulNat(limb, num), carry))

Add64(a, b) == Wrap64(WAdd(a, b))

(***************************************************************************)
(* Decimal text: operator<< of an unsigned integer, str() and atoi()       *)
(***************************************************************************)
RECURSIVE Str(_)
Str(n) == IF n < 10 THEN <<48 + n>> ELSE Str(n \div 10) \o <<48 + (n % 10)>>

WStr(w) ==
  IF w = <<>> THEN <<48>> ELSE [k \in 1..Len(w) |-> 48 + w[Len(w) + 1 - k]]

RECURSIVE AtoiLoop(_, _, _)
AtoiLoop(str, k, acc) ==
  IF k <= Len(str) /\ str[k] \in 48..57
    THEN AtoiLoop(str, k + 1, acc * 10 + (str[k] - 48))
    ELSE acc

Atoi(str) == AtoiLoop(str, 1, 0)

(***************************************************************************)
(* src/factorial_hash.cpp, first program: boost mpz_int (a TLA+ integer)   *)
(***************************************************************************)
RECURSIVE MpzFactorialLoop(_, _)
MpzFactorialLoop(f0, i) ==
  IF i > 0 THEN MpzFactorialLoop(f0 * i, i - 1) ELSE f0

mpz_factorial(num) == MpzFactorialLoop(1, num)

RECURSIVE split_num_into_digits(_)
split_num_into_digits(num) ==
  IF num > 0
    THEN <<Atoi(Str(num % 10))>> \o split_num_into_digits(num \div 10)
    ELSE <<>>

RECURSIVE SumLoop32(_, _, _)
SumLoop32(v, k, sum) ==
  IF k <= Len(v) THEN SumLoop32(v, k + 1, Add32(sum, v[k])) ELSE sum

mpz_sum_of_digits(num) == SumLoop32(split_num_into_digits(num), 1, 0)

(***************************************************************************)
(* src/factorial_hash.cpp, second program: BigNum, one decimal digit per   *)
(* uint32_t element                                                        *)
(***************************************************************************)
BigNum10(str) == [k \in 1..Len(str) |-> Atoi(<<str[k]>>)]

\* mutant: the whole carry is pushed as one element
Mul10Carry_Whole(big, carry) ==
  IF carry # 0 THEN Append(big, carry) ELSE big

RECURSIVE Mul10Carry(_, _)
Mul10Carry(big, carry) ==
  IF carry # 0
    THEN Mul10Carry(Append(big, carry % 10), carry \div 10)
    ELSE big

RECURSIVE Mul10Loop(_, _, _, _)
Mul10Loop(big, num, i, carry) ==
  IF i < Len(big)
    THEN LET prod == MulAdd32(big[i + 1], num, carry)
         IN Mul10Loop([big EXCEPT ![i + 1] = prod % 10], num, i + 1,
                      prod \div 10)
    ELSE Mul10Carry(big, carry)

\* BigNum::operator*(uint32_t)
Mul10(big, num) == Mul10Loop(big, num, 0, 0)

RECURSIVE Stream10Loop(_, _)
Stream10Loop(big, i) ==
  IF i >= 0 THEN Str(big[i + 1]) \o Stream10Loop(big, i - 1) ELSE <<>>

\* operator<<(ostream&, const BigNum&)
Stream10(big) == IF big # <<>> THEN Stream10Loop(big, Len(big) - 1) ELSE <<>>

RECURSIVE B10FactorialLoop(_, _)
B10FactorialLoop(f0, i) ==
  IF i > 0 THEN B10FactorialLoop(Mul10(f0, i), i - 1) ELSE f0

\* mutant: the product starts from a default-constructed BigNum
b10_factorial_Empty(num) == B10FactorialLoop(<<>>, num)

b10_factorial(num) == B10FactorialLoop(BigNum10(<<49>>), num)

b10_sum_of_digits(big) == SumLoop32(big, 1, 0)

(***************************************************************************)
(* A base-10 BigNum constructed from a decimal string, multiplied once     *)
(* with operator* and streamed with operator<<                             *)
(***************************************************************************)
DigitChars == 48..57

DigitStrings == UNION {[1..n -> DigitChars] : n \in 0..MaxStrLen}

\* some digit * num + carry of operator* does not fit a uint32_t
RECURSIVE Mul10OverLoop(_, _, _, _)
Mul10OverLoop(big, num, i, carry) ==
  IF i < Len(big)
    THEN LET exact == WAdd(WMulNat(WFromNat(big[i + 1]), num), WFromNat(carry))
             prod == MulAdd32(big[i + 1], num, carry)
         IN \/ ~WLess(exact, Two32)
            \/ Mul10OverLoop(big, num, i + 1, prod \div 10)
    ELSE FALSE

Mul10Over(big, num) == Mul10OverLoop(big, num, 0, 0)

\* BigNum big_num(str)
Constructed10(str) ==
  [str |-> str, big |-> BigNum10(str), called |-> FALSE, num |-> 0,
   res |-> <<>>, over |-> FALSE, printed |-> FALSE, text |-> <<>>]

\* res = big * num
Multiply10(num) ==
  /\ ~m10.called
  /\ m10' = [m10 EXCEPT !.called = TRUE,
                        !.num = num,
                        !.res = Mul10(m10.big, num),
                        !.over = Mul10Over(m10.big, num)]
  /\ UNCHANGED <<nameVars, incVars, factVars, m64, indices, ub>>

\* std::cout << res
Print10 ==
  /\ m10.called
  /\ ~m10.printed
  /\ m10' = [m10 EXCEPT !.printed = TRUE, !.text = Stream10(m10.res)]
  /\ UNCHANGED <<nameVars, incVars, factVars, m64, indices, ub>>

(***************************************************************************)
(* src/unnamed/part_000: BigNum with uint64_t elements                     *)
(***************************************************************************)
\* constexpr uint64_t base = 1000000000000000000, as a power of ten
kBaseDigits == 18

ModBase(w) ==
  WNorm(SubSeq(w, 1, IF Len(w) < kBaseDigits THEN Len(w) ELSE kBaseDigits))

DivBase(w) ==
  IF Len(w) <= kBaseDigits THEN <<>> ELSE SubSeq(w, kBaseDigits + 1, Len(w))

BigNum64(num) == <<num>>

RECURSIVE Mul64Carry(_, _)
Mul64Carry(big, carry) ==
  IF carry # <<>>
    THEN Mul64Carry(Append(big, ModBase(carry)), DivBase(carry))
    ELSE big

\* the number after the call and the lines the call printed
RECURSIVE MulAssign64Loop(_, _, _, _, _)
MulAssign64Loop(big, num, i, carry, printed) ==
  IF i < Len(big)
    THEN LET prod == MulAdd64(big[i + 1], num, carry)
             big1 == [big EXCEPT ![i + 1] = ModBase(prod)]
         IN MulAssign64Loop(big1, num, i + 1, DivBase(prod),
                            Append(printed, WStr(big1[i + 1])))
    ELSE [big_num |-> Mul64Carry(big, carry), printed |-> printed]

\* BigNum::operator*=(uint64_t)
MulAssign64(big, num) == MulAssign64Loop(big, num, 0, <<>>, <<>>)

RECURSIVE Stream64Loop(_, _)
Stream64Loop(big, i) ==
  IF i >= 0 THEN WStr(big[i + 1]) \o Stream64Loop(big, i - 1) ELSE <<>>

Stream64(big) == IF big # <<>> THEN Stream64Loop(big, Len(big) - 1) ELSE <<>>

RECURSIVE U64FactorialLoop(_, _, _)
U64FactorialLoop(f0, i, printed) ==
  IF i > 0
    THEN LET m == MulAssign64(f0, i)
         IN U64FactorialLoop(m.big_num, i - 1, printed \o m.printed)
    ELSE [big_num |-> f0, printed |-> printed]

u64_factorial(num) == U64FactorialLoop(BigNum64(WFromNat(1)), num, <<>>)

RECURSIVE SumLoop64(_, _, _)
SumLoop64(v, k, sum) ==
  IF k <= Len(v) THEN SumLoop64(v, k + 1, Add64(sum, v[k])) ELSE sum

u64_sum_of_digits(big) == SumLoop64(big, 1, <<>>)

RECURSIVE Mul64Loop(_, _, _, _)
Mul64Loop(big, num, i, carry) ==
  IF i < Len(big)
    THEN LET prod == MulAdd64(big[i + 1], num, carry)
         IN Mul64Loop([big EXCEPT ![i + 1] = ModBase(prod)], num, i + 1,
                      DivBase(prod))
    ELSE Mul64Carry(big, carry)

\* BigNum::operator*(uint64_t)
Mul64(big, num) == Mul64Loop(big, num, 0, <<>>)

\* some big_num_[i] * num + carry of operator* or operator*= does not fit a
\* uint64_t
RECURSIVE Mul64OverLoop(_, _, _, _)
Mul64OverLoop(big, num, i, carry) ==
  IF i < Len(big)
    THEN LET exact == WAdd(WMulNat(big[i + 1], num), carry)
             prod == MulAdd64(big[i + 1], num, carry)
         IN \/ ~WLess(exact, Two64)
            \/ Mul64OverLoop(big, num, i + 1, DivBase(prod))
    ELSE FALSE

Mul64Over(big, num) == Mul64OverLoop(big, num, 0, <<>>)

(***************************************************************************)
(* A uint64 BigNum multiplied once, with operator* or with operator*=      *)
(***************************************************************************)
\* 10^k - 1 and 10^k
Nines(k) == [i \in 1..k |-> 9]

Pow10(k) == [i \in 1..(k + 1) |-> IF i = k + 1 THEN 1 ELSE 0]

\* limbs below the base: small ones, 10^15 - 1 and base - 1
LimbValues ==
  {WFromNat(v) : v \in 1..MaxMul} \cup {Nines(15), Nines(kBaseDigits)}

Operands64 == UNION {[1..n -> LimbValues] : n \in 1..MaxLimbs}

\* a BigNum holding the limbs big
Constructed64(big) ==
  [big |-> big, arg |-> big, called |-> "none", num |-> 0, res |-> <<>>,
   over |-> FALSE, lines |-> <<>>]

\* res = big * num
Multiply64(num) ==
  /\ m64.called = "none"
  /\ m64' = [m64 EXCEPT !.called = "operator*",
                        !.num = num,
                        !.res = Mul64(m64.big, num),
                        !.over = Mul64Over(m64.big, num)]
  /\ UNCHANGED <<nameVars, incVars, factVars, m10, indices, ub>>

\* big *= num
MultiplyAssign64(num) ==
  /\ m64.called = "none"
  /\ LET r == MulAssign64(m64.big, num)
     IN m64' = [m64 EXCEPT !.called = "operator*=",
                           !.num = num,
                           !.big = r.big_num,
                           !.res = r.big_num,
                           !.over = Mul64Over(m64.big, num),
                           !.lines = r.printed]
  /\ UNCHANGED <<nameVars, incVars, factVars, m10, indices, ub>>

(***************************************************************************)
(* main() of the three factorial programs, run on the same input x         *)
(***************************************************************************)
kUpperBound == 2000

Programs == {"mpz", "b10", "u64"}

\* the inputs: small ones, whose factorial is computed, and the ones around
\* kUpperBound
Inputs == (0..MaxN) \cup ((kUpperBound - MaxOver)..(kUpperBound + MaxOver))

\* mutant: the bound itself is rejected
OutOfRange_Inclusive(v) == v >= kUpperBound

OutOfRange(v) == v > kUpperBound

Line(kind, text) == [kind |-> kind, text |-> text]

\* the range check at the head of main(): print the message and return -1,
\* or go on to the factorial
Check(p) ==
  /\ pc[p] = "start"
  /\ IF OutOfRange(x)
       THEN /\ out' = [out EXCEPT ![p] = Append(@, Line("range", Str(x)))]
            /\ exit_code' = [exit_code EXCEPT ![p] = <<-1>>]
            /\ pc' = [pc EXCEPT ![p] = "done"]
       ELSE /\ pc' = [pc EXCEPT ![p] = "factorial"]
            /\ UNCHANGED <<out, exit_code>>
  /\ UNCHANGED <<x, f, digit_sum>>
  /\ UNCHANGED <<nameVars, incVars, extVars>>

MpzCheck == Check("mpz")

B10Check == Check("b10")

U64Check == Check("u64")

MpzFactorial ==
  /\ pc["mpz"] = "factorial"
  /\ x <= MaxN
  /\ f' = [f EXCEPT !["mpz"] = <<mpz_factorial(x)>>]
  /\ pc' = [pc EXCEPT !["mpz"] = "sum"]
  /\ UNCHANGED <<x, out, digit_sum, exit_code>>
  /\ UNCHANGED <<nameVars, incVars, extVars>>

B10Factorial ==
  /\ pc["b10"] = "factorial"
  /\ x <= MaxN
  /\ LET f_big_num == b10_factorial(x)
     IN /\ f' = [f EXCEPT !["b10"] = <<f_big_num>>]
        /\ out' = [out EXCEPT !["b10"] =
                     Append(@, Line("factorial", Stream10(f_big_num)))]
  /\ pc' = [pc EXCEPT !["b10"] = "sum"]
  /\ UNCHANGED <<x, digit_sum, exit_code>>
  /\ UNCHANGED <<nameVars, incVars, extVars>>

U64Factorial ==
  /\ pc["u64"] = "factorial"
  /\ x <= MaxN
  /\ LET r == u64_factorial(x)
     IN /\ f' = [f EXCEPT !["u64"] = <<r.big_num>>]
        /\ out' = [out EXCEPT !["u64"] =
                     Append(@ \o [k \in 1..Len(r.printed) |->
                                    Line("limb", r.printed[k])],
                            Line("factorial", Stream64(r.big_num)))]
  /\ pc' = [pc EXCEPT !["u64"] = "sum"]
  /\ UNCHANGED <<x, digit_sum, exit_code>>
  /\ UNCHANGED <<nameVars, incVars, extVars>>

MpzSum ==
  /\ pc["mpz"] = "sum"
  /\ LET s == mpz_sum_of_digits(f["mpz"][1])
     IN /\ digit_sum' = [digit_sum EXCEPT !["mpz"] = <<s>>]
        /\ out' = [out EXCEPT !["mpz"] = Append(@, Line("sum", Str(s)))]
  /\ exit_code' = [exit_code EXCEPT !["mpz"] = <<0>>]
  /\ pc' = [pc EXCEPT !["mpz"] = "done"]
  /\ UNCHANGED <<x, f>>
  /\ UNCHANGED <<nameVars, incVars, extVars>>

B10Sum ==
  /\ pc["b10"] = "sum"
  /\ LET s == b10_sum_of_digits(f["b10"][1])
     IN /\ digit_sum' = [digit_sum EXCEPT !["b10"] = <<s>>]
        /\ out' = [out EXCEPT !["b10"] = Append(@, Line("sum", Str(s)))]
  /\ exit_code' = [exit_code EXCEPT !["b10"] = <<0>>]
  /\ pc' = [pc EXCEPT !["b10"] = "done"]
  /\ UNCHANGED <<x, f>>
  /\ UNCHANGED <<nameVars, incVars, extVars>>

U64Sum ==
  /\ pc["u64"] = "sum"
  /\ LET s == u64_sum_of_digits(f["u64"][1])
     IN /\ digit_sum' = [digit_sum EXCEPT !["u64"] = <<s>>]
        /\ out' = [out EXCEPT !["u64"] = Append(@, Line("sum", WStr(s)))]
  /\ exit_code' = [exit_code EXCEPT !["u64"] = <<0>>]
  /\ pc' = [pc EXCEPT !["u64"] = "done"]
  /\ UNCHANGED <<x, f>>
  /\ UNCHANGED <<nameVars, incVars, extVars>>

\* the programs before they read their input
FactStart ==
  /\ pc = [p \in Programs |-> "start"]
  /\ f = [p \in Programs |-> <<>>]
  /\ digit_sum = [p \in Programs |-> <<>>]
  /\ out = [p \in Programs |-> <<>>]
  /\ exit_code = [p \in Programs |-> <<>>]

(***************************************************************************)
(* Drivers: main() of name_book_tree.cpp and of name_book.cpp read the     *)
(* same names, one call per name or one file at a time.                    *)
(***************************************************************************)
AddName(name) ==
  /\ Len(name_list_) < MaxNames
  /\ TreeAddName(name)
  /\ ListAddName(name)
  /\ UNCHANGED <<incVars, factVars, extVars>>

ReadNames(file) ==
  /\ Len(name_list_) + Len(file) <= MaxNames
  /\ TreeReadNames(file)
  /\ ListReadNames(file)
  /\ UNCHANGED <<incVars, factVars, extVars>>

\* the three name books read the same names; only the incremental book can
\* be cleared
BooksAddName(name) ==
  /\ Len(name_list_) < MaxNames
  /\ TreeAddName(name)
  /\ ListAddName(name)
  /\ LET b == IncAdd(IncBook, name)
     IN /\ inc_name_list_' = b.list
        /\ inc_consistent_' = b.consistent
  /\ UNCHANGED <<factVars, extVars>>

BooksReadNames(file) ==
  /\ Len(name_list_) + Len(file) <= MaxNames
  /\ TreeReadNames(file)
  /\ ListReadNames(file)
  /\ LET b == IncReadLoop(IncBook, file, 1)
     IN /\ inc_name_list_' = b.list
        /\ inc_consistent_' = b.consistent
  /\ UNCHANGED <<factVars, extVars>>

(***************************************************************************)
(* AddName of the trie book with any non-whitespace characters: the index  *)
(* into children_ is not checked, and an index outside the array is        *)
(* undefined behaviour.                                                    *)
(***************************************************************************)
\* 'A', 'a', 'z', '{'
RawChars == {65, 97, 122, 123}

RawNames == UNION {[1..n -> RawChars] : n \in 1..MaxNameLen}

InArray(i) == i \in 0..(kMaxChildren - 1)

\* the indices AddWord(word) uses, up to the first one outside the array
UsedIndices(word) ==
  {IndexFromChar(word[k]) :
     k \in {j \in 1..Len(word) :
              \A i \in 1..(j - 1) : InArray(IndexFromChar(word[i]))}}

RawAddName(name) ==
  /\ ~ub
  /\ Len(name_list_) < MaxNames
  /\ indices' = UsedIndices(name)
  /\ IF \A i \in UsedIndices(name) : InArray(i)
       THEN /\ TreeAddName(name)
            /\ ub' = FALSE
       ELSE \* the call read or wrote outside children_: any return value,
            \* the tree is not followed further
            /\ ub' = TRUE
            /\ ret' \in {kOK, KCollision}
            /\ consistent_' = IF ret' = KCollision THEN FALSE ELSE consistent_
            /\ t_' = t_
  /\ ListAddName(name)
  /\ UNCHANGED <<incVars, factVars, m10, m64>>

TreeInit ==
  /\ t_ = WordTree
  /\ consistent_ = TRUE
  /\ ret = kOK
  /\ name_list_ = <<>>

IncInit ==
  /\ inc_name_list_ = <<>>
  /\ inc_consistent_ = TRUE

\* nothing constructed, no AddWord call made with a character outside 'a'..'z'
ExtIdle10 == m10 = Constructed10(<<>>)

ExtIdle64 == m64 = Constructed64(<<>>)

ExtIdleRaw == indices = {} /\ ub = FALSE

Init ==
  /\ TreeInit /\ IncInit /\ x = 0 /\ FactStart
  /\ ExtIdle10 /\ ExtIdle64 /\ ExtIdleRaw

Next ==
  \/ \E name \in Names : AddName(name)
  \/ \E file \in Files : ReadNames(file)

Spec == Init /\ [][Next]_vars

NextInc ==
  \/ \E name \in Names : IncAddName(name)
  \/ \E file \in Files : IncReadNames(file)
  \/ ClearNames

SpecInc == Init /\ [][NextInc]_vars

InitFact ==
  /\ TreeInit /\ IncInit /\ x \in Inputs /\ FactStart
  /\ ExtIdle10 /\ ExtIdle64 /\ ExtIdleRaw

NextFact ==
  \/ MpzCheck
  \/ MpzFactorial
  \/ MpzSum
  \/ B10Check
  \/ B10Factorial
  \/ B10Sum
  \/ U64Check
  \/ U64Factorial
  \/ U64Sum

SpecFact == InitFact /\ [][NextFact]_vars

\* the multipliers: small ones and the ones up to kUpperBound
Multipliers == (0..MaxMul) \cup ((kUpperBound - MaxOver)..kUpperBound)

NextBooks ==
  \/ \E name \in Names : BooksAddName(name)
  \/ \E file \in Files : BooksReadNames(file)
  \/ ClearNames

SpecBooks == Init /\ [][NextBooks]_vars

NextRaw == \E name \in RawNames : RawAddName(name)

SpecRaw == Init /\ [][NextRaw]_vars

InitMul10 ==
  /\ TreeInit /\ IncInit /\ x = 0 /\ FactStart
  /\ \E str \in DigitStrings : m10 = Constructed10(str)
  /\ ExtIdle64 /\ ExtIdleRaw

NextMul10 ==
  \/ \E num \in Multipliers : Multiply10(num)
  \/ Print10

SpecMul10 == InitMul10 /\ [][NextMul10]_vars

InitMul64 ==
  /\ TreeInit /\ IncInit /\ x = 0 /\ FactStart
  /\ ExtIdle10
  /\ \E big \in Operands64 : m64 = Constructed64(big)
  /\ ExtIdleRaw

NextMul64 ==
  \/ \E num \in Multipliers \ {0} : Multiply64(num)
  \/ \E num \in Multipliers \ {0} : MultiplyAssign64(num)

SpecMul64 == InitMul64 /\ [][NextMul64]_vars

(***************************************************************************)
(* Properties of the name books                                            *)
(***************************************************************************)
\* a is equal to b or a leading substring of b
IsPrefixOf(a, b) == Len(a) <= Len(b) /\ \A k \in 1..Len(a) : a[k] = b[k]

PrefixClash(list) ==
  \E i, j \in 1..Len(list) : i # j /\ IsPrefixOf(list[i], list[j])

HasDuplicate(list) ==
  \E i, j \in 1..Len(list) : i # j /\ list[i] = list[j]

\* a occurs in b, but not at position 0
InnerOccurrence(a, b) ==
  \E p \in 1..(Len(b) - Len(a)) : SubSeq(b, p + 1, p + Len(a)) = a

Last(s) == s[Len(s)]

Range(s) == {s[k] : k \in 1..Len(s)}

\* the node the path leads to from the root, NULL if the path leaves the tree
RECURSIVE Walk(_, _, _, _)
Walk(h, path, k, node) ==
  IF node = NULL \/ k > Len(path)
    THEN node
    ELSE Walk(h, path, k + 1, GetChild(h, node, path[k]))

NodeAt(h, path) == Walk(h, path, 1, root_)

\* the path of w reaches or passes through a childless node that ends one
\* of the names inserted before
PassesTerminal(h, names, w) ==
  \E k \in 1..Len(w) :
    LET n == NodeAt(h, SubSeq(w, 1, k))
    IN /\ n # NULL
       /\ num_children(h, n) = 0
       /\ SubSeq(w, 1, k) \in Range(names)

\* C1: after the same names were added in the same order, the trie book's
\* consistent() equals what the pairwise IsConsistent() returns for the list.
C1_TrieAgreesWithPairwise == consistent = IsConsistent(name_list_)

\* C2: when no name of the list is a prefix of (or equal to) another one,
\* the trie book reports consistent() = true.
C2_PrefixFreeIsConsistent == ~PrefixClash(name_list_) => consistent = TRUE

\* C3: when some name occurs twice in the list, the trie book reports
\* consistent() = false.
C3_DuplicateIsInconsistent == HasDuplicate(name_list_) => consistent = FALSE

\* C4: the pairwise IsConsistent() returns false exactly when two entries at
\* different positions are equal or one is a leading substring of the other;
\* an occurrence at another position never makes the list inconsistent.  The
\* same holds of CheckIfSubString on every pair of entries.
C4_PairwiseIsPrefixCheck ==
  /\ (IsConsistent(name_list_) = FALSE) <=> PrefixClash(name_list_)
  /\ \A i, j \in 1..Len(name_list_) :
       CheckIfSubString(name_list_[i], name_list_[j])
         <=> (\/ IsPrefixOf(name_list_[i], name_list_[j])
              \/ IsPrefixOf(name_list_[j], name_list_[i]))

\* a list with an occurrence at a position other than 0 and no prefix clash,
\* which IsConsistent() accepts
C4_Witness ==
  /\ Len(name_list_) = MaxNames
  /\ \E i, j \in 1..Len(name_list_) :
       i # j /\ InnerOccurrence(name_list_[i], name_list_[j])
  /\ ~PrefixClash(name_list_)
  /\ IsConsistent(name_list_)

\* C9: in the incremental book the flag consistent() returns equals what
\* IsConsistent() computes over the current name list.
C9_FlagMatchesIsConsistent ==
  inc_consistent = IncIsConsistent(inc_name_list_)

\* the flag went false on a full list
C9_Witness ==
  /\ Len(inc_name_list_) = MaxNames
  /\ inc_consistent = FALSE
  /\ ~IncIsConsistent(inc_name_list_)

\* C10: AddWord(w) returns KCollision exactly when the path of w reaches or
\* passes through a node that was an existing terminal node before the
\* insertion, and kOK otherwise.
C10_CollisionIffTerminal ==
  [][Len(name_list_') = Len(name_list_) + 1
       => (ret' = KCollision
             <=> PassesTerminal(t_, name_list_, Last(name_list_')))]_vars

\* a trie book that has read the names of list, in list order
FreshTreeBook == [t |-> WordTree, consistent |-> TRUE, ret |-> kOK]

TreeBookOf(list) == TreeReadLoop(FreshTreeBook, list, 1)

Front(s) == SubSeq(s, 1, Len(s) - 1)

\* C15: the trie book's result does not depend on insertion order: adding
\* the names of the list in any permuted order gives the same consistent().
C15_OrderIndependent ==
  \A q \in Permutations(1..Len(name_list_)) :
    TreeBookOf([i \in 1..Len(name_list_) |-> name_list_[q[i]]]).consistent
      = consistent

\* C16: the flag is sticky: the trie book's flag never goes from false to
\* true, and the incremental book's flag goes from false to true only in a
\* ClearNames step.
C16_FlagSticky ==
  [][/\ consistent_ = FALSE => consistent_' = FALSE
     /\ (inc_consistent_ = FALSE /\ inc_consistent_' = TRUE) => ClearNames]_vars

\* both flags are false although the last name added clashed with nothing
C16_Witness ==
  /\ consistent = FALSE
  /\ ret = kOK
  /\ inc_consistent = FALSE
  /\ inc_name_list_ # <<>>
  /\ CheckNameConsistency(Front(inc_name_list_), Last(inc_name_list_))

\* C17: for every name AddName accepts, every index AddWord uses on a
\* node's children array lies in 0..25.
C17_IndicesInArray == \A i \in indices : InArray(i)

(***************************************************************************)
(* Properties of the factorial programs                                    *)
(***************************************************************************)
\* n! and its decimal digits, least significant first
RECURSIVE Fact(_)
Fact(n) == IF n = 0 THEN 1 ELSE n * Fact(n - 1)

RECURSIVE DecDigits(_)
DecDigits(n) ==
  IF n < 10 THEN <<n>> ELSE <<n % 10>> \o DecDigits(n \div 10)

RECURSIVE SeqSum(_)
SeqSum(v) == IF v = <<>> THEN 0 ELSE v[1] + SeqSum(Tail(v))

Kinds(p) == {out[p][k].kind : k \in 1..Len(out[p])}

\* C5: for the same input, sum_of_digits(factorial(n)) is the same value in
\* the mpz_int, the base-10 BigNum and the uint64 BigNum program.
C5_SameDigitSum ==
  (\A p \in Programs : digit_sum[p] # <<>>)
    => /\ digit_sum["mpz"][1] = digit_sum["b10"][1]
       /\ WFromNat(digit_sum["b10"][1]) = digit_sum["u64"][1]

\* C6: in the base-10 BigNum program factorial(n) holds exactly the decimal
\* digits of n!, least significant first, and sum_of_digits(factorial(n)) is
\* the sum of the decimal digits of n!.
C6_Base10FactorialDigits ==
  /\ f["b10"] # <<>> => f["b10"][1] = DecDigits(Fact(x))
  /\ digit_sum["b10"] # <<>>
       => digit_sum["b10"][1] = SeqSum(DecDigits(Fact(x)))

\* the digit sum of the largest factorial computed
C6_Witness == x = MaxN /\ digit_sum["b10"] # <<>> /\ Len(f["b10"][1]) > 1

\* C7: factorial(0) is 1 in every implementation: the initial one-element
\* representation of 1, with no multiplication performed.
C7_FactorialZeroIsOne ==
  x = 0 =>
    /\ f["mpz"] # <<>> => f["mpz"][1] = 1
    /\ f["b10"] # <<>> => f["b10"][1] = <<1>>
    /\ f["u64"] # <<>> => f["u64"][1] = <<WFromNat(1)>>
    /\ "limb" \notin Kinds("u64")

\* all three programs have computed factorial(0)
C7_Witness == x = 0 /\ \A p \in Programs : f[p] # <<>>

\* C8: a program returns -1 exactly when x > 2000, and then it computes no
\* factorial and prints no digit-sum line; for x <= 2000 it goes on to the
\* factorial, and when it returns it has printed the digit sum and returns 0.
C8_ExitCode ==
  \A p \in Programs :
    /\ exit_code[p] = <<-1>> <=> (pc[p] = "done" /\ x > kUpperBound)
    /\ exit_code[p] = <<-1>>
         => /\ f[p] = <<>>
            /\ digit_sum[p] = <<>>
            /\ Kinds(p) = {"range"}
    /\ (x <= kUpperBound /\ pc[p] # "start")
         => pc[p] \in {"factorial", "sum", "done"}
    /\ (x <= kUpperBound /\ pc[p] = "done")
         => /\ exit_code[p] = <<0>>
            /\ f[p] # <<>>
            /\ digit_sum[p] # <<>>
            /\ Last(out[p]).kind = "sum"

\* every program has rejected the first input above the bound
C8_Witness ==
  /\ x = kUpperBound + 1
  /\ \A p \in Programs : exit_code[p] = <<-1>>

(***************************************************************************)
(* Properties of BigNum multiplication                                     *)
(***************************************************************************)
\* the number a digit vector stands for, digit i weighted by 10^i
RECURSIVE Value10(_)
Value10(v) == IF v = <<>> THEN 0 ELSE v[1] + 10 * Value10(Tail(v))

\* C11: in the base-10 BigNum, for an operand with digits in 0..9 and a
\* multiplier in 0..2000, operator* returns digits in 0..9 whose value is the
\* operand's value times the multiplier, and no digit * num + carry leaves
\* the uint32 range.
C11_Base10Multiply ==
  m10.called =>
    /\ \A k \in 1..Len(m10.res) : m10.res[k] \in 0..9
    /\ Value10(m10.res) = Value10(m10.big) * m10.num
    /\ ~m10.over

\* the largest multiplier on a full operand, the carry adding several digits
C11_Witness ==
  /\ m10.called
  /\ m10.num = kUpperBound
  /\ Len(m10.big) = MaxStrLen
  /\ Len(m10.res) > Len(m10.big) + 2

\* C14: for a decimal string s without leading zero and num in 1..2000,
\* streaming BigNum(s) * num prints the decimal digits of int(s) * num.
C14_StringRoundTrip ==
  (/\ m10.printed
   /\ m10.str # <<>>
   /\ m10.str[1] # 48
   /\ m10.num >= 1)
    => m10.text = Str(Atoi(m10.str) * m10.num)

\* the number a limb vector stands for, limb i weighted by base^i
RECURSIVE Value64(_)
Value64(v) ==
  IF v = <<>>
    THEN <<>>
    ELSE WNorm(v[1] \o [i \in 1..(kBaseDigits - Len(v[1])) |-> 0]
                 \o Value64(Tail(v)))

LimbsBelow(v, bound) == \A k \in 1..Len(v) : WLess(v[k], bound)

\* C12: in the uint64 BigNum, for an operand with limbs below the radix and a
\* multiplier in 1..2000, limb * num + carry never exceeds 2^64 - 1 and
\* operator* and operator*= multiply the represented value by num exactly.
C12_Uint64MultiplyExact ==
  (m64.called # "none" /\ LimbsBelow(m64.arg, Pow10(kBaseDigits)))
    => /\ ~m64.over
       /\ Value64(m64.res) = WMulNat(Value64(m64.arg), m64.num)

\* C13: operator* and operator*= of the uint64 BigNum work in base 10^15:
\* after either operation every stored limb is less than 10^15.
C13_LimbsBelowTen15 ==
  (m64.called # "none" /\ LimbsBelow(m64.arg, Pow10(15)))
    => /\ LimbsBelow(m64.res, Pow10(15))
       /\ LimbsBelow(m64.big, Pow10(15))

=============================================================================
